---- MODULE Spec2Model ----
(***************************************************************************)
(* Broad-phase box intersection (Zomorodian & Edelsbrunner): the box       *)
(* contract, the box set, the scans, brute force and the streamed segment  *)
(* tree (hybrid), modelled from src/src/{boxes,set,median,internals,lib}.rs *)
(*                                                                         *)
(* Positions are 0-based as in the source; a set is a sequence, so the     *)
(* entry at position idx of set s is s[idx + 1].                           *)
(***************************************************************************)
EXTENDS Integers, Sequences, FiniteSets, TLC

(***************************************************************************)
(* Bounds of the model and constants of the program                        *)
(***************************************************************************)
\* number of axes of a box (Box2D)
DIM == 2
\* largest endpoint on axis 0 (the sweep axis)
MaxCoord0 == 2
\* largest endpoint on the higher axes (the segment tree axes)
MaxCoord1 == 3
\* largest number of boxes over both input sets
MaxBoxes == 3
\* largest cutoff of intersect_ze_custom tried, besides that of intersect_ze
MaxCutoff == 2
\* largest number of entries in a sink that is handed to a further call
MaxSink == 1
\* largest number of boxes of a set that approx_median is called on by itself
MaxLen == 2615
\* the cutoff of intersect_ze
CUTOFF == 1000
\* HasInfinity: the sentinels of the root segment
NINFTY == -1
INFTY == 1000000

MaxCoord(dim) == IF dim = 0 THEN MaxCoord0 ELSE MaxCoord1

Dims == 0 .. DIM - 1

(***************************************************************************)
(* boxes.rs: the box contract                                              *)
(***************************************************************************)
lo(bbox, dim) == bbox.min[dim]

hi(bbox, dim) == bbox.max[dim]

contains_in_le(bbox, dim, point) == lo(bbox, dim) <= point /\ point <= hi(bbox, dim)

contains_in(bbox, dim, point) == lo(bbox, dim) <= point /\ point < hi(bbox, dim)

intersects_in_le(bbox, dim, l, h) == lo(bbox, dim) <= h /\ l <= hi(bbox, dim)

intersects_in(bbox, dim, l, h) == lo(bbox, dim) < h /\ l < hi(bbox, dim)

intersects(bbox, other) ==
    \A dim \in Dims : intersects_in(bbox, dim, lo(other, dim), hi(other, dim))

(***************************************************************************)
(* set.rs: the box set, a vector of (box, id) entries                      *)
(***************************************************************************)
len(s) == Len(s)

empty(s) == len(s) = 0

InRange(s, idx) == 0 <= idx /\ idx < len(s)

get(s, idx) == s[idx + 1]

\* self.boxes.iter()
iter(s) == {s[j] : j \in 1 .. Len(s)}

\* the entries of s that satisfy the predicate (pred: the entries it holds for), in the
\* order of s
filter(s, pred) == SelectSeq(s, LAMBDA e : e \in pred)

partition_push_front(s, pred) ==
    <<SelectSeq(s, LAMBDA e : e \in pred),
      [j \in 1 .. Len(SelectSeq(s, LAMBDA e : e \notin pred)) |->
          SelectSeq(s, LAMBDA e : e \notin pred)[Len(SelectSeq(s, LAMBDA e : e \notin pred)) + 1 - j]]>>

\* <<the entries for which the predicate returns true, those for which it returns false>>
partition(s, pred) ==
    <<SelectSeq(s, LAMBDA e : e \in pred), SelectSeq(s, LAMBDA e : e \notin pred)>>

(***************************************************************************)
(* lib.rs: AnswerFormat.  The sink variant never influences control flow,  *)
(* so one emission is recorded as the entry that each of the three         *)
(* variants would receive; the sink of a variant is the projection.        *)
(***************************************************************************)
Emission(index, ident, both) == [Index |-> index, Ident |-> ident, Both |-> both]

\* the result of running a routine: what it appended, and whether it panicked
Ok(entries) == [out |-> entries, panic |-> FALSE]

PanicResult == [out |-> <<>>, panic |-> TRUE]

(***************************************************************************)
(* internals.rs: one_way_scan                                              *)
(***************************************************************************)
\* while p_min_idx < p_len && points.boxes[p_min_idx].0.lo(0) < i_min
RECURSIVE ows_skip(_, _, _)
ows_skip(points, p_min_idx, i_min) ==
    IF p_min_idx < len(points) /\ lo(get(points, p_min_idx).box, 0) < i_min
    THEN ows_skip(points, p_min_idx + 1, i_min)
    ELSE p_min_idx

ows_self_off(p_id, i_id) == FALSE

\* if p_id == i_id { continue }
ows_self(p_id, i_id) == p_id = i_id

ows_dims(p, i, max_dim_check) ==
    \A dim \in 1 .. max_dim_check : intersects_in(p, dim, lo(i, dim), hi(i, dim))

ows_tie_off(p_min, i_min, p_id, i_id) == FALSE

\* if p_min == i_min && p_id > i_id { continue }
ows_tie(p_min, i_min, p_id, i_id) == p_min = i_min /\ p_id > i_id

ows_emit(i_idx, i_id, p_idx, p_id, p_min_idx) ==
    Emission(<<i_idx, p_idx>>, <<i_id, p_id>>, <<<<p_idx, p_min_idx>>, <<i_id, p_id>>>>)

\* 'points: for p_idx in p_min_idx..p_len
RECURSIVE ows_points(_, _, _, _, _, _)
ows_points(intervals, points, max_dim_check, i_idx, p_min_idx, p_idx) ==
    IF p_idx >= len(points) THEN <<>>
    ELSE LET i == get(intervals, i_idx)
             p == get(points, p_idx)
             p_min == lo(p.box, 0)
             rest == ows_points(intervals, points, max_dim_check, i_idx, p_min_idx, p_idx + 1)
         IN  IF p_min >= hi(i.box, 0) THEN <<>>
             ELSE IF ows_self(p.id, i.id) THEN rest
             ELSE IF ~ows_dims(p.box, i.box, max_dim_check) THEN rest
             ELSE IF ows_tie(p_min, lo(i.box, 0), p.id, i.id) THEN rest
             ELSE <<ows_emit(i_idx, i.id, p_idx, p.id, p_min_idx)>> \o rest

\* for (i_idx, i) in intervals.boxes.iter().enumerate(); p_min_idx is advanced once
\* per interval and kept (the set of one element binds its value)
RECURSIVE ows_intervals(_, _, _, _, _)
ows_intervals(intervals, points, max_dim_check, i_idx, p_min_idx0) ==
    IF i_idx >= len(intervals) THEN <<>>
    ELSE CHOOSE res \in
             { IF p_min_idx = len(points) THEN <<>>
               ELSE ows_points(intervals, points, max_dim_check, i_idx, p_min_idx, p_min_idx)
                    \o ows_intervals(intervals, points, max_dim_check, i_idx + 1, p_min_idx)
               : p_min_idx \in {ows_skip(points, p_min_idx0, lo(get(intervals, i_idx).box, 0))} } : TRUE

one_way_scan(intervals, points, max_dim_check) ==
    Ok(ows_intervals(intervals, points, max_dim_check, 0, 0))

(***************************************************************************)
(* internals.rs: _two_way_scan, two_way_scan, simulated_one_way_scan       *)
(***************************************************************************)
dim_range_upper_sim(SIMULATE_ONE_WAY, max_dim_check) == max_dim_check

\* exclusive upper bound of dimensions to be checked for intersection
dim_range_upper(SIMULATE_ONE_WAY, max_dim_check) ==
    IF SIMULATE_ONE_WAY THEN max_dim_check ELSE max_dim_check + 1

tws_continue_or(i_min_idx, i_len, p_min_idx, p_len) == i_min_idx < i_len \/ p_min_idx < p_len

\* while i_min_idx < i_len && p_min_idx < p_len
tws_continue(i_min_idx, i_len, p_min_idx, p_len) == i_min_idx < i_len /\ p_min_idx < p_len

tws_self_off(x_id, y_id) == FALSE

\* if p_id == i_min_id { continue } and if i_id == p_min_id { continue }
tws_self(x_id, y_id) == x_id = y_id

\* for dim in 1..dim_range_upper { if !x.intersects_in(dim, y.lo(dim), y.hi(dim)) { continue } }
tws_dims(x, y, upper) ==
    \A dim \in 1 .. upper - 1 : intersects_in(x, dim, lo(y, dim), hi(y, dim))

tws_sim_skip_point_lesser(SIMULATE_ONE_WAY, i, i_id, p, p_id, max_dim_check) ==
    SIMULATE_ONE_WAY
    /\ (\/ ~contains_in(i, max_dim_check, lo(p, max_dim_check))
        \/ (lo(i, max_dim_check) = lo(p, max_dim_check) /\ p_id > i_id))

\* if SIMULATE_ONE_WAY && (!i.contains_in(k, p.lo(k)) || (i.lo(k) == p.lo(k) && i_id > p_id)) { continue }
tws_sim_skip(SIMULATE_ONE_WAY, i, i_id, p, p_id, max_dim_check) ==
    SIMULATE_ONE_WAY
    /\ (\/ ~contains_in(i, max_dim_check, lo(p, max_dim_check))
        \/ (lo(i, max_dim_check) = lo(p, max_dim_check) /\ i_id > p_id))

\* the emission of the branch in which the interval cursor is the interval
tws_emit_i(i_min_idx, i_min_id, p_idx, p_id) ==
    Emission(<<p_idx, i_min_idx>>, <<i_min_id, p_id>>, <<<<p_idx, i_min_idx>>, <<i_min_id, p_id>>>>)

\* the emission of the branch in which the roles are switched
tws_emit_p(p_min_idx, p_min_id, i_idx, i_id) ==
    Emission(<<p_min_idx, i_idx>>, <<p_min_id, i_id>>, <<<<p_min_idx, i_idx>>, <<p_min_id, i_id>>>>)

\* 'points: for p_idx in p_min_idx..p_len
RECURSIVE tws_points(_, _, _, _, _, _)
tws_points(intervals, points, max_dim_check, SIMULATE_ONE_WAY, i_min_idx, p_idx) ==
    IF p_idx >= len(points) THEN <<>>
    ELSE LET i_min == get(intervals, i_min_idx)
             p == get(points, p_idx)
             rest == tws_points(intervals, points, max_dim_check, SIMULATE_ONE_WAY, i_min_idx, p_idx + 1)
         IN  IF lo(p.box, 0) >= hi(i_min.box, 0) THEN <<>>
             ELSE IF tws_self(p.id, i_min.id) THEN rest
             ELSE IF ~tws_dims(p.box, i_min.box, dim_range_upper(SIMULATE_ONE_WAY, max_dim_check)) THEN rest
             ELSE IF tws_sim_skip(SIMULATE_ONE_WAY, i_min.box, i_min.id, p.box, p.id, max_dim_check) THEN rest
             ELSE <<tws_emit_i(i_min_idx, i_min.id, p_idx, p.id)>> \o rest

\* 'intervals: for i_idx in i_min_idx..i_len
RECURSIVE tws_intervals(_, _, _, _, _, _)
tws_intervals(intervals, points, max_dim_check, SIMULATE_ONE_WAY, p_min_idx, i_idx) ==
    IF i_idx >= len(intervals) THEN <<>>
    ELSE LET p_min == get(points, p_min_idx)
             i == get(intervals, i_idx)
             rest == tws_intervals(intervals, points, max_dim_check, SIMULATE_ONE_WAY, p_min_idx, i_idx + 1)
         IN  IF lo(i.box, 0) >= hi(p_min.box, 0) THEN <<>>
             ELSE IF tws_self(i.id, p_min.id) THEN rest
             ELSE IF ~tws_dims(i.box, p_min.box, dim_range_upper(SIMULATE_ONE_WAY, max_dim_check)) THEN rest
             ELSE IF tws_sim_skip(SIMULATE_ONE_WAY, i.box, i.id, p_min.box, p_min.id, max_dim_check) THEN rest
             ELSE <<tws_emit_p(p_min_idx, p_min.id, i_idx, i.id)>> \o rest

\* the while loop; get() panics on a position that is out of range; the rest of the
\* loop runs once (the set of one element binds its result)
RECURSIVE tws_loop(_, _, _, _, _, _)
tws_loop(intervals, points, max_dim_check, SIMULATE_ONE_WAY, i_min_idx, p_min_idx) ==
    IF ~tws_continue(i_min_idx, len(intervals), p_min_idx, len(points)) THEN Ok(<<>>)
    ELSE IF ~(InRange(intervals, i_min_idx) /\ InRange(points, p_min_idx)) THEN PanicResult
    ELSE LET i_min == get(intervals, i_min_idx)
             p_min == get(points, p_min_idx)
             first == lo(i_min.box, 0) < lo(p_min.box, 0)
             step == IF first
                     THEN tws_points(intervals, points, max_dim_check, SIMULATE_ONE_WAY, i_min_idx, p_min_idx)
                     ELSE tws_intervals(intervals, points, max_dim_check, SIMULATE_ONE_WAY, p_min_idx, i_min_idx)
             rest == IF first
                     THEN tws_loop(intervals, points, max_dim_check, SIMULATE_ONE_WAY, i_min_idx + 1, p_min_idx)
                     ELSE tws_loop(intervals, points, max_dim_check, SIMULATE_ONE_WAY, i_min_idx, p_min_idx + 1)
         IN  CHOOSE res \in {[out |-> step \o r.out, panic |-> r.panic] : r \in {rest}} : TRUE

_two_way_scan(intervals, points, max_dim_check, SIMULATE_ONE_WAY) ==
    tws_loop(intervals, points, max_dim_check, SIMULATE_ONE_WAY, 0, 0)

simulated_one_way_scan(intervals, points, max_dim_check) ==
    _two_way_scan(intervals, points, max_dim_check, TRUE)

two_way_scan(a_set, b_set) == _two_way_scan(a_set, b_set, DIM - 1, FALSE)

(***************************************************************************)
(* lib.rs: intersect_brute_force_flex, intersect_scan_flex                 *)
(***************************************************************************)
bf_emit(aidx, id, bidx, id2) ==
    Emission(<<aidx, bidx>>, <<id, id2>>, <<<<aidx, bidx>>, <<id, id2>>>>)

\* the inner loop over the second set, from position bidx on
RECURSIVE bf_inner(_, _, _, _)
bf_inner(a_set, b_set, aidx, bidx) ==
    IF bidx >= len(b_set) THEN <<>>
    ELSE LET x == get(a_set, aidx)
             y == get(b_set, bidx)
         IN  (IF intersects(x.box, y.box) THEN <<bf_emit(aidx, x.id, bidx, y.id)>> ELSE <<>>)
             \o bf_inner(a_set, b_set, aidx, bidx + 1)

\* same: start = 1, incremented once per outer iteration; otherwise the full set
bf_start(is_same, aidx) == IF is_same THEN aidx + 1 ELSE 0

RECURSIVE bf_outer(_, _, _, _)
bf_outer(a_set, b_set, is_same, aidx) ==
    IF aidx >= len(a_set) THEN <<>>
    ELSE bf_inner(a_set, IF is_same THEN a_set ELSE b_set, aidx, bf_start(is_same, aidx))
         \o bf_outer(a_set, b_set, is_same, aidx + 1)

intersect_brute_force(a_set, b_set, is_same) == Ok(bf_outer(a_set, b_set, is_same, 0))

intersect_scan(a_set, b_set, is_same) ==
    IF is_same THEN one_way_scan(a_set, a_set, DIM - 1) ELSE two_way_scan(a_set, b_set)

(***************************************************************************)
(* median.rs and set.rs: the median sampler                                *)
(***************************************************************************)
median_of_3_mean(x, y, z) == (x + y + z) \div 3

median_of_3(x, y, z) ==
    IF x > y
    THEN (IF y > z THEN y ELSE IF x > z THEN z ELSE x)
    ELSE (IF y < z THEN y ELSE IF x > z THEN x ELSE z)

\* median.rs approx_median: <<the value, the indices left>>; pop() takes the last index;
\* the three recursive calls are made once each, in the order of the arguments
RECURSIVE median_approx_median(_, _, _)
median_approx_median(items, levels, random_indices) ==
    IF levels = 0
    THEN <<items[random_indices[Len(random_indices)] + 1],
           SubSeq(random_indices, 1, Len(random_indices) - 1)>>
    ELSE LET third(r1, r2) ==
                 CHOOSE res \in { <<median_of_3(r1[1], r2[1], r3[1]), r3[2]>> :
                                   r3 \in {median_approx_median(items, levels - 1, r2[2])} } : TRUE
             second(r1) ==
                 CHOOSE res \in { third(r1, r2) :
                                   r2 \in {median_approx_median(items, levels - 1, r1[2])} } : TRUE
         IN  CHOOSE res \in { second(r1) :
                               r1 \in {median_approx_median(items, levels - 1, random_indices)} } : TRUE

\* floor(ln(n / 137 + 1)): the least n with ln(n/137 + 1) >= j is ceil(137 (e^j - 1))
floor_ln(n) ==
    IF n >= 7343 THEN 4 ELSE IF n >= 2615 THEN 3 ELSE IF n >= 876 THEN 2 ELSE IF n >= 236 THEN 1 ELSE 0

\* (0.91 * ((len / 137.0 + 1.0).ln().floor())) as u32, and 1 in place of 0
median_levels(n) ==
    LET l == (91 * floor_ln(n)) \div 100
    IN  IF l = 0 THEN 1 ELSE l

RECURSIVE pow3(_)
pow3(levels) == IF levels = 0 THEN 1 ELSE 3 * pow3(levels - 1)

\* the number of indices one call of approx_median draws
median_cap(n) == pow3(median_levels(n))

\* set.rs approx_median from the call of median::approx_median on, given the indices
\* that rand_usize returned, in the order drawn: <<the value, the indices left>>
sample(s, dim, random_indices) ==
    LET points == [j \in 1 .. len(s) |-> lo(s[j].box, dim)]
    IN  median_approx_median(points, median_levels(len(s)), random_indices)

\* set.rs approx_median: the value returned
approx_median(s, dim, random_indices) == sample(s, dim, random_indices)[1]

\* every value approx_median can return: one for each sequence of indices the RNG can return
medians(s, dim) ==
    { approx_median(s, dim, random_indices) :
        random_indices \in [1 .. median_cap(len(s)) -> 0 .. len(s) - 1] }

(***************************************************************************)
(* The inputs: sets of non-empty boxes, sorted by lo(0), unique ids        *)
(***************************************************************************)
Ids == 1 .. MaxBoxes

Boxes ==
    { [min |-> mn, max |-> mx] :
        <<mn, mx>> \in { pr \in [Dims -> 0 .. MaxCoord0 + MaxCoord1] \X [Dims -> 0 .. MaxCoord0 + MaxCoord1] :
                            \A dim \in Dims : pr[1][dim] < pr[2][dim] /\ pr[2][dim] <= MaxCoord(dim) } }

Entries == { [box |-> bx, id |-> i] : bx \in Boxes, i \in Ids }

IsSorted(s) == \A j \in 1 .. len(s) - 1 : lo(s[j].box, 0) <= lo(s[j + 1].box, 0)

UniqueIds(s) == \A j, k \in 1 .. len(s) : j # k => s[j].id # s[k].id

SortedSets == [n \in 0 .. MaxBoxes |-> { s \in [1 .. n -> Entries] : IsSorted(s) /\ UniqueIds(s) }]

(***************************************************************************)
(* The state: the two input sets (same: both arguments are one set), the   *)
(* call in progress, the sink, the recursion stack of hybrid_flex, and of  *)
(* the last step: the number of calls of rand_usize (drawn) and the calls  *)
(* of hybrid_flex it entered.  Of a call of approx_median by itself: the    *)
(* calls of rand_usize so far (rand) and what the call returned (median).    *)
(***************************************************************************)
VARIABLES a, b, same, call, pc, out, stack, drawn, panicked, entered, rand, median

vars == <<a, b, same, call, pc, out, stack, drawn, panicked, entered, rand, median>>

NoCall == [op |-> "none", max_dim_check |-> 0, CUTOFF |-> 0]

\* approx_median has not returned
NoMedian == [returned |-> FALSE, value |-> NINFTY, random_indices |-> <<>>]

InitRest ==
    /\ call = NoCall
    /\ pc = "ready"
    /\ out = <<>>
    /\ stack = <<>>
    /\ drawn = 0
    /\ panicked = FALSE
    /\ entered = <<>>
    /\ rand = <<>>
    /\ median = NoMedian

\* one set passed as both arguments
InitSame ==
    /\ same = TRUE
    /\ \E n \in 0 .. MaxBoxes : a \in SortedSets[n]
    /\ b = a
    /\ InitRest

DisjointIds(s, u) == \A j \in 1 .. len(s) : \A k \in 1 .. len(u) : s[j].id # u[k].id

\* two distinct sets that share no identifier
InitDistinct ==
    /\ same = FALSE
    /\ \E n \in 0 .. MaxBoxes - 1 : \E m \in 0 .. MaxBoxes - 1 :
          /\ n + m <= MaxBoxes
          /\ a \in SortedSets[n]
          /\ b \in { u \in SortedSets[m] : DisjointIds(a, u) }
    /\ InitRest

\* two distinct sets of which one is a copy of the other (a.clone())
InitClone ==
    /\ same = FALSE
    /\ \E n \in 1 .. MaxBoxes - 1 : a \in SortedSets[n]
    /\ b = a
    /\ InitRest

Init == InitSame \/ InitDistinct \/ InitClone

\* the set the second argument refers to
arg_b == IF same THEN a ELSE b

\* a routine that runs to its end in one step
Finish(op, max_dim_check, res) ==
    /\ pc = "ready"
    /\ call' = [op |-> op, max_dim_check |-> max_dim_check, CUTOFF |-> 0]
    /\ out' = out \o res.out
    /\ panicked' = res.panic
    /\ pc' = IF res.panic THEN "panicked" ELSE "done"
    /\ drawn' = 0
    /\ UNCHANGED <<a, b, same, stack, entered, rand, median>>

CallBruteForce == Finish("intersect_brute_force", DIM - 1, intersect_brute_force(a, arg_b, same))

CallScan == Finish("intersect_scan", DIM - 1, intersect_scan(a, arg_b, same))

CallOneWayScan ==
    \E max_dim_check \in Dims :
        Finish("one_way_scan", max_dim_check, one_way_scan(a, arg_b, max_dim_check))

CallSimulatedOneWayScan ==
    \E max_dim_check \in Dims :
        Finish("simulated_one_way_scan", max_dim_check, simulated_one_way_scan(a, arg_b, max_dim_check))

CallTwoWayScan == Finish("two_way_scan", DIM - 1, two_way_scan(a, arg_b))

(***************************************************************************)
(* internals.rs hybrid_flex, lib.rs intersect_ze_custom                    *)
(***************************************************************************)
Cutoffs == (1 .. MaxCutoff) \cup {CUTOFF}

Frame(kind, intervals, points, lo_, hi_, dim, intervals_lr) ==
    [kind |-> kind, intervals |-> intervals, points |-> points, lo |-> lo_, hi |-> hi_,
     dim |-> dim, intervals_lr |-> intervals_lr]

CallFrame(intervals, points, lo_, hi_, dim) ==
    Frame("call", intervals, points, lo_, hi_, dim, <<>>)

intersect_ze_custom_one_tree(is_same) ==
    <<CallFrame(a, IF is_same THEN a ELSE b, NINFTY, INFTY, DIM - 1)>>

\* same: one tree; otherwise hybrid(a, b) and then hybrid(b, a)
intersect_ze_custom(is_same) ==
    IF is_same
    THEN <<CallFrame(a, a, NINFTY, INFTY, DIM - 1)>>
    ELSE <<CallFrame(a, b, NINFTY, INFTY, DIM - 1), CallFrame(b, a, NINFTY, INFTY, DIM - 1)>>

\* Step 1: if intervals.empty() || points.empty() || hi <= lo { return }
step1(intervals, points, lo_, hi_) == empty(intervals) \/ empty(points) \/ hi_ <= lo_

\* Step 3: if intervals.len() < CUTOFF || points.len() < CUTOFF
step3(intervals, points, cutoff) == len(intervals) < cutoff \/ len(points) < cutoff

\* Step 4: i.lo(dim) < lo && i.hi(dim) > hi
spans(e, lo_, hi_, dim) == lo(e.box, dim) < lo_ /\ hi(e.box, dim) > hi_

median_failed_never(mi, lo_, hi_) == FALSE

\* if mi == hi || mi == lo
median_failed(mi, lo_, hi_) == mi = hi_ \/ mi = lo_

point_left_le(e, mi, dim) == lo(e.box, dim) <= mi

\* points.partition(|(p, _)| p.lo(dim) < mi)
point_left(e, mi, dim) == lo(e.box, dim) < mi

\* if i.lo(dim) < mi { intervals_l.push(id, i) }
interval_left(e, mi, dim) == lo(e.box, dim) < mi

\* if i.hi(dim) > mi { intervals_r.push(id, i) }
interval_right(e, mi, dim) == hi(e.box, dim) > mi

\* Step 4: the two recursive calls on the next lower axis, the second with the roles swapped
step4_calls(intervals_m, points, dim) ==
    <<CallFrame(intervals_m, points, NINFTY, INFTY, dim - 1),
      CallFrame(points, intervals_m, NINFTY, INFTY, dim - 1)>>

\* what a run of the recursion did: the frames left, what the scans appended, whether
\* one panicked, and the frames (calls of hybrid_flex) it calls, in order
Ran(frames, entries, panic, calls) ==
    [stack |-> frames, out |-> entries, panic |-> panic, entered |-> calls]

\* a scan called by hybrid_flex ends the frame; the scan runs once
RECURSIVE advance(_, _, _, _)
after_scan(scan, frames, cutoff, entries, calls) ==
    CHOOSE r \in { IF res.panic
                   THEN Ran(<<>>, entries \o res.out, TRUE, calls)
                   ELSE advance(frames, cutoff, entries \o res.out, calls)
                   : res \in {scan} } : TRUE

\* hybrid_flex from its entry to the recursive calls of Step 4 (Steps 1 to 4)
hybrid_enter(f, rest, cutoff, entries, calls) ==
    LET parts == partition(f.intervals, {e \in iter(f.intervals) : spans(e, f.lo, f.hi, f.dim)})
        intervals_m == parts[1]
        intervals_lr == parts[2]
    IN  IF step1(f.intervals, f.points, f.lo, f.hi)
        THEN advance(rest, cutoff, entries, calls)
        ELSE IF f.dim = 0
        THEN after_scan(one_way_scan(f.intervals, f.points, 0), rest, cutoff, entries, calls)
        ELSE IF step3(f.intervals, f.points, cutoff)
        THEN after_scan(simulated_one_way_scan(f.intervals, f.points, f.dim), rest, cutoff, entries, calls)
        ELSE advance(step4_calls(intervals_m, f.points, f.dim)
                     \o <<Frame("split", f.intervals, f.points, f.lo, f.hi, f.dim, intervals_lr)>>
                     \o rest, cutoff, entries, calls)

\* the recursion runs, depth first, until a frame needs the RNG (Step 5) or none is left;
\* the arguments are passed by value
advance(frames, cutoff, entries, calls) ==
    CHOOSE r \in { IF v[1] = <<>> \/ Head(v[1]).kind = "split"
                   THEN Ran(v[1], v[2], FALSE, v[3])
                   ELSE hybrid_enter(Head(v[1]), Tail(v[1]), cutoff, v[2], Append(v[3], Head(v[1])))
                   : v \in {<<frames, entries, calls>>} } : TRUE

split_calls_swapped(f, mi) ==
    LET pparts == partition(f.points, {e \in iter(f.points) : point_left(e, mi, f.dim)})
        points_l == pparts[1]
        points_r == pparts[2]
        intervals_l == filter(f.intervals_lr, {e \in iter(f.intervals_lr) : interval_left(e, mi, f.dim)})
        intervals_r == filter(f.intervals_lr, {e \in iter(f.intervals_lr) : interval_right(e, mi, f.dim)})
    IN  <<CallFrame(intervals_l, points_r, f.lo, mi, f.dim),
          CallFrame(intervals_r, points_l, mi, f.hi, f.dim)>>

\* Steps 5 to 7: the calls on the left and the right subsegment, given the median mi
split_calls(f, mi) ==
    LET pparts == partition(f.points, {e \in iter(f.points) : point_left(e, mi, f.dim)})
        points_l == pparts[1]
        points_r == pparts[2]
        intervals_l == filter(f.intervals_lr, {e \in iter(f.intervals_lr) : interval_left(e, mi, f.dim)})
        intervals_r == filter(f.intervals_lr, {e \in iter(f.intervals_lr) : interval_right(e, mi, f.dim)})
    IN  <<CallFrame(intervals_l, points_l, f.lo, mi, f.dim),
          CallFrame(intervals_r, points_r, mi, f.hi, f.dim)>>

\* hybrid_flex from Step 5 on, given the median mi that approx_median returned
hybrid_split(f, rest, cutoff, mi) ==
    IF median_failed(mi, f.lo, f.hi)
    THEN after_scan(simulated_one_way_scan(f.intervals_lr, f.points, f.dim), rest, cutoff, <<>>, <<>>)
    ELSE advance(split_calls(f, mi) \o rest, cutoff, <<>>, <<>>)

Continue_overwrite(r) ==
    /\ out' = r.out
    /\ panicked' = r.panic
    /\ stack' = r.stack
    /\ entered' = r.entered
    /\ pc' = IF r.panic THEN "panicked" ELSE IF r.stack = <<>> THEN "done" ELSE "running"

\* the state after a run of the recursion
Continue(r) ==
    /\ out' = out \o r.out
    /\ panicked' = r.panic
    /\ stack' = r.stack
    /\ entered' = r.entered
    /\ pc' = IF r.panic THEN "panicked" ELSE IF r.stack = <<>> THEN "done" ELSE "running"

\* intersect_ze_custom::<CUTOFF>(a, b, out, rand), up to its first draw from the RNG
CallZe ==
    /\ pc = "ready"
    /\ \E c \in Cutoffs :
          /\ call' = [op |-> "intersect_ze_custom", max_dim_check |-> DIM - 1, CUTOFF |-> c]
          /\ \E r \in {advance(intersect_ze_custom(same), c, <<>>, <<>>)} : Continue(r)
    /\ drawn' = 0
    /\ UNCHANGED <<a, b, same, rand, median>>

\* points.approx_median(dim, rand) of the frame on top, and the recursion up to the next draw
HybridSplit ==
    /\ pc = "running"
    /\ stack # <<>>
    /\ LET f == Head(stack)
           cap == median_cap(len(f.points))
       IN  IF empty(f.points)
           THEN \* rand_usize(0): an empty range cannot be sampled
                /\ Continue(Ran(<<>>, <<>>, TRUE, <<>>))
                /\ drawn' = 1
           ELSE \E mi \in medians(f.points, f.dim) :
                  /\ drawn' = cap
                  /\ \E r \in {hybrid_split(f, Tail(stack), call.CUTOFF, mi)} : Continue(r)
    /\ UNCHANGED <<a, b, same, call, rand, median>>

Next ==
    \/ CallBruteForce
    \/ CallScan
    \/ CallOneWayScan
    \/ CallSimulatedOneWayScan
    \/ CallTwoWayScan
    \/ CallZe
    \/ HybridSplit

Spec == Init /\ [][Next]_vars

\* one set passed as both arguments
SpecSame == InitSame /\ [][Next]_vars

\* two distinct sets
SpecDistinct == (InitDistinct \/ InitClone) /\ [][Next]_vars

\* any two sets of at most MaxBoxes boxes: in any order, identifiers repeated
\* the boxes pushed: of width 1 on axis 0, any on the other axes
AnyBoxes == {bx \in Boxes : hi(bx, 0) = lo(bx, 0) + 1}

\* the identifiers pushed on a set s: a new one, or the first one again
AnyEntries(s) == [box : AnyBoxes, id : {1, len(s) + 1}]

\* BBoxSet::new(): both sets empty; same says whether one set is passed twice
InitEmpty ==
    /\ same \in BOOLEAN
    /\ a = <<>>
    /\ b = <<>>
    /\ InitRest

\* a.push(id, bbox): the box goes to the end, whatever the order and the identifiers
PushA ==
    /\ pc = "ready"
    /\ len(a) + (IF same THEN 0 ELSE len(b)) < MaxBoxes
    /\ \E e \in AnyEntries(a) :
          /\ a' = Append(a, e)
          /\ b' = IF same THEN Append(a, e) ELSE b
    /\ UNCHANGED <<same, call, pc, out, stack, drawn, panicked, entered, rand, median>>

\* b.push(id, bbox), b being a set of its own
PushB ==
    /\ pc = "ready"
    /\ ~same
    /\ len(a) + len(b) < MaxBoxes
    /\ \E e \in AnyEntries(b) : b' = Append(b, e)
    /\ UNCHANGED <<a, same, call, pc, out, stack, drawn, panicked, entered, rand, median>>

\* sets built by push and handed to intersect_ze_custom; the program runs: the call
\* is made, and a call that waits for the RNG gets its numbers
NextZe ==
    \/ PushA
    \/ PushB
    \/ CallZe
    \/ HybridSplit

SpecZe == InitEmpty /\ [][NextZe]_vars /\ WF_vars(CallZe) /\ WF_vars(HybridSplit)

\* intersect_ze_custom has returned; the caller owns the sets and the sink and may hand
\* them, as they are, to a further call
Return ==
    /\ pc = "done"
    /\ call.op = "intersect_ze_custom"
    /\ len(out) <= MaxSink
    /\ pc' = "ready"
    /\ call' = NoCall
    /\ drawn' = 0
    /\ entered' = <<>>
    /\ UNCHANGED <<a, b, same, out, stack, panicked, rand, median>>

NextSink ==
    \/ CallZe
    \/ HybridSplit
    \/ Return

\* top-level calls of intersect_ze_custom, one after the other, on one sink
SpecSink == Init /\ [][NextSink]_vars

(***************************************************************************)
(* The scans and brute force on boxes that may have no width on an axis:   *)
(* BoxND::new(min, max) takes any two corners                              *)
(***************************************************************************)
\* the boxes with lo(k) <= hi(k) on every axis
FlatBoxes ==
    { [min |-> mn, max |-> mx] :
        <<mn, mx>> \in { pr \in [Dims -> 0 .. MaxCoord0 + MaxCoord1] \X [Dims -> 0 .. MaxCoord0 + MaxCoord1] :
                            \A dim \in Dims : pr[1][dim] <= pr[2][dim] /\ pr[2][dim] <= MaxCoord(dim) } }

\* the sorted sets of n such boxes with unique identifiers
FlatSets(n) ==
    { s \in [1 .. n -> [box : FlatBoxes, id : Ids]] : IsSorted(s) /\ UniqueIds(s) }

\* one set of up to MaxBoxes - 1 such boxes passed twice, or two sets of one box each
InitFlat ==
    /\ \/ /\ same = TRUE
          /\ \E n \in 0 .. MaxBoxes - 1 : a \in FlatSets(n)
          /\ b = a
       \/ /\ same = FALSE
          /\ a \in FlatSets(1)
          /\ b \in { u \in FlatSets(1) : DisjointIds(a, u) }
    /\ InitRest

NextFlat ==
    \/ CallBruteForce
    \/ CallOneWayScan
    \/ CallSimulatedOneWayScan
    \/ CallTwoWayScan

SpecFlat == InitFlat /\ [][NextFlat]_vars

(***************************************************************************)
(* set.rs approx_median called by itself, one call of rand_usize at a time *)
(***************************************************************************)
\* the lengths of the sets sampled: the small ones, and two large ones
SampleLens == (1 .. MaxBoxes) \cup {MaxLen \div 2, MaxLen}

\* a sorted set of n boxes of width 1: lo(0) rises along the set, lo(1) goes round
SampleSet(n) ==
    [j \in 1 .. n |->
        [box |-> [min |-> [dim \in Dims |-> IF dim = 0 THEN ((j - 1) * MaxCoord0) \div n
                                                      ELSE (j - 1) % MaxCoord1],
                  max |-> [dim \in Dims |-> IF dim = 0 THEN (((j - 1) * MaxCoord0) \div n) + 1
                                                      ELSE ((j - 1) % MaxCoord1) + 1]],
         id |-> j]]

InitSample ==
    /\ same = TRUE
    /\ \E n \in SampleLens : a = SampleSet(n)
    /\ b = a
    /\ InitRest

\* Rng::rand_usize(high): a number from 0 to high - 1; of a large range the model
\* takes the two ends
rand_usize(high) == IF high <= MaxBoxes THEN 0 .. high - 1 ELSE {0, high - 1}

\* self.approx_median(dim, rand) is called: levels and cap are computed
CallApproxMedian ==
    /\ pc = "ready"
    /\ \E dim \in Dims : call' = [op |-> "approx_median", max_dim_check |-> dim, CUTOFF |-> 0]
    /\ pc' = "sampling"
    /\ UNCHANGED <<a, b, same, out, stack, drawn, panicked, entered, rand, median>>

\* for _ in 0..cap { random_indices.push(rand.rand_usize(points.len())) }: one iteration
RandUsize ==
    /\ pc = "sampling"
    /\ Len(rand) < median_cap(len(a))
    /\ \E r \in rand_usize(len(a)) : rand' = Append(rand, [high |-> len(a), value |-> r])
    /\ drawn' = drawn + 1
    /\ UNCHANGED <<a, b, same, call, pc, out, stack, panicked, entered, median>>

\* median::approx_median(&points, levels as u8, &mut random_indices), and the return
ApproxMedianReturn ==
    /\ pc = "sampling"
    /\ Len(rand) = median_cap(len(a))
    /\ \E r \in {sample(a, call.max_dim_check, [j \in 1 .. Len(rand) |-> rand[j].value])} :
          median' = [returned |-> TRUE, value |-> r[1], random_indices |-> r[2]]
    /\ pc' = "done"
    /\ UNCHANGED <<a, b, same, call, out, stack, drawn, panicked, entered, rand>>

NextSample ==
    \/ CallApproxMedian
    \/ RandUsize
    \/ ApproxMedianReturn

SpecSample == InitSample /\ [][NextSample]_vars

(***************************************************************************)
(* What the properties speak of                                            *)
(***************************************************************************)
\* the call of routine op has returned
Done(op) == pc = "done" /\ call.op = op

\* the unordered identifier pairs of a sequence of emissions
IdentPairs(entries) == { {entries[j].Ident[1], entries[j].Ident[2]} : j \in 1 .. Len(entries) }

\* no unordered identifier pair occurs at two places of a sequence of emissions
NoDuplicates(entries) ==
    \A j, k \in 1 .. Len(entries) :
        j # k => {entries[j].Ident[1], entries[j].Ident[2]} # {entries[k].Ident[1], entries[k].Ident[2]}

\* the identifier pairs of the boxes at different positions of s that overlap on every axis
OverlapSame(s) ==
    { {s[j].id, s[k].id} :
        <<j, k>> \in { pr \in (1 .. len(s)) \X (1 .. len(s)) :
                          pr[1] # pr[2] /\ intersects(s[pr[1]].box, s[pr[2]].box) } }

\* the positions (j in s, k in u) of the boxes that overlap on every axis
OverlapPositions(s, u) ==
    { pr \in (1 .. len(s)) \X (1 .. len(u)) : intersects(s[pr[1]].box, u[pr[2]].box) }

OverlapCross(s, u) == { {s[pr[1]].id, u[pr[2]].id} : pr \in OverlapPositions(s, u) }

\* the scans called with the highest axis, as intersect_scan and the tests call them
FullScan == call.max_dim_check = DIM - 1

(***************************************************************************)
(* C1: for a sorted set A of non-empty boxes with unique identifiers,      *)
(* every cutoff and every behaviour of the RNG, the unordered identifier   *)
(* pairs that intersect_ze_custom(A, A) emits are those intersect_brute_   *)
(* force(A, A) emits: the pairs of distinct boxes that overlap on every    *)
(* axis.                                                                   *)
(***************************************************************************)
C1_ZeSameSetAgreement ==
    (Done("intersect_ze_custom") /\ same)
    => /\ IdentPairs(out) = IdentPairs(intersect_brute_force(a, a, TRUE).out)
       /\ IdentPairs(out) = OverlapSame(a)

\* a run on three boxes that split a segment and reported two pairs
C1_Witness ==
    /\ Done("intersect_ze_custom") /\ same
    /\ call.CUTOFF = 1 /\ drawn > 0
    /\ len(a) = MaxBoxes /\ Cardinality(IdentPairs(out)) >= 2

(***************************************************************************)
(* C2: for two distinct sorted sets A and B that share no identifier, the  *)
(* two recursions of intersect_ze_custom(A, B) together emit every pair of *)
(* a box of A and a box of B that intersect, no other pair, and each pair  *)
(* once, for every cutoff and every behaviour of the RNG.                  *)
(***************************************************************************)
C2_ZeBipartiteComplete ==
    (Done("intersect_ze_custom") /\ ~same /\ DisjointIds(a, b))
    => /\ IdentPairs(out) = OverlapCross(a, b)
       /\ Len(out) = Cardinality(OverlapPositions(a, b))

\* a bipartite run on three boxes that split a segment and reported two pairs
C2_Witness ==
    /\ Done("intersect_ze_custom") /\ ~same /\ DisjointIds(a, b)
    /\ call.CUTOFF = 1 /\ drawn > 0
    /\ len(a) + len(b) = MaxBoxes /\ Len(out) >= 2

(***************************************************************************)
(* C3: for a sorted set A with unique identifiers, one_way_scan(A, A, d-1) *)
(* (which intersect_scan(A, A) runs) and simulated_one_way_scan(A, A, d-1) *)
(* each emit the unordered identifier pairs of intersect_brute_force(A, A).*)
(***************************************************************************)
C3_ScansSameSetAgreement ==
    (/\ same
     /\ \/ Done("intersect_scan")
        \/ Done("one_way_scan") /\ FullScan
        \/ Done("simulated_one_way_scan") /\ FullScan)
    => IdentPairs(out) = IdentPairs(intersect_brute_force(a, a, TRUE).out)

\* the simulated scan reported two pairs of a set of three boxes
C3_Witness ==
    /\ same /\ Done("simulated_one_way_scan") /\ FullScan
    /\ len(a) = MaxBoxes /\ Cardinality(IdentPairs(out)) >= 2

(***************************************************************************)
(* C4: for two distinct sorted sets A and B that share no identifier,      *)
(* two_way_scan(A, B) (which intersect_scan(A, B) runs) emits the pairs of *)
(* a box of A and a box of B that overlap on every axis, each once: the    *)
(* unordered pairs, and the number of pairs, of intersect_brute_force.     *)
(***************************************************************************)
C4_TwoWayScanDistinct ==
    (/\ ~same /\ DisjointIds(a, b)
     /\ Done("two_way_scan") \/ Done("intersect_scan"))
    => /\ IdentPairs(out) = OverlapCross(a, b)
       /\ IdentPairs(out) = IdentPairs(intersect_brute_force(a, b, FALSE).out)
       /\ Len(out) = Len(intersect_brute_force(a, b, FALSE).out)
       /\ NoDuplicates(out)

\* the two-way scan reported two pairs
C4_Witness ==
    /\ ~same /\ DisjointIds(a, b) /\ Done("two_way_scan")
    /\ Len(out) >= 2

(***************************************************************************)
(* C5: for a sorted set A with unique identifiers passed as both           *)
(* arguments, intersect_ze_custom, intersect_scan, intersect_brute_force,  *)
(* one_way_scan (d-1) and simulated_one_way_scan (d-1) emit no unordered   *)
(* pair twice, whatever low endpoints the boxes share; two boxes with the  *)
(* same coordinates yield exactly one pair.                                *)
(***************************************************************************)
C5_NoDuplicatesSameSet ==
    (/\ same /\ pc = "done"
     /\ \/ call.op \in {"intersect_ze_custom", "intersect_scan", "intersect_brute_force"}
        \/ call.op \in {"one_way_scan", "simulated_one_way_scan"} /\ FullScan)
    => /\ NoDuplicates(out)
       /\ (len(a) = 2 /\ a[1].box = a[2].box) => Len(out) = 1

\* the recursion ran on two boxes with the same coordinates and reported one pair
C5_Witness ==
    /\ same /\ Done("intersect_ze_custom") /\ call.CUTOFF = 1 /\ drawn > 0
    /\ len(a) = 2 /\ a[1].box = a[2].box /\ Len(out) = 1

(***************************************************************************)
(* C6 as stated: with identifiers unique within each input set, no routine,*)
(* called with one set twice or with two distinct sets, emits a pair (x, x)*)
(***************************************************************************)
C6_NoSelfPairsAsStated ==
    \A j \in 1 .. Len(out) : out[j].Ident[1] # out[j].Ident[2]

(***************************************************************************)
(* C6 amended: with identifiers unique within each input set, no routine   *)
(* emits a pair (x, x), except intersect_brute_force called with two       *)
(* distinct sets that share an identifier.                                 *)
(***************************************************************************)
C6_NoSelfPairs ==
    \/ call.op = "intersect_brute_force" /\ ~same /\ ~DisjointIds(a, b)
    \/ \A j \in 1 .. Len(out) : out[j].Ident[1] # out[j].Ident[2]

\* the two-way scan reported a pair of two distinct sets that share identifiers
C6_Witness ==
    /\ ~same /\ ~DisjointIds(a, b)
    /\ Done("two_way_scan") /\ out # <<>>

(***************************************************************************)
(* C7: intersect_ze_custom returns for every input, sorted or not, with    *)
(* repeated identifiers or not, for every cutoff and every behaviour of    *)
(* the RNG: a median equal to the segment's lo or hi diverts to a scan, so *)
(* no call on a subsegment has the point set and the segment of its        *)
(* caller.                                                                 *)
(***************************************************************************)
\* whatever the RNG draws next, the calls on the subsegments differ from the caller
SplitsProgress ==
    pc = "running"
    => LET f == Head(stack)
       IN  \A mi \in medians(f.points, f.dim) :
               ~median_failed(mi, f.lo, f.hi)
               => \A k \in 1 .. 2 :
                      LET g == split_calls(f, mi)[k]
                      IN  ~(g.points = f.points /\ g.lo = f.lo /\ g.hi = f.hi)

C7_ZeTerminates == <>(pc = "done") /\ [](SplitsProgress /\ ~panicked)

\* a run on an unsorted set with a repeated identifier whose last median was the
\* segment's lo: it drew from the RNG, called nothing and returned
C7_Witness ==
    /\ Done("intersect_ze_custom") /\ drawn > 0 /\ entered = <<>>
    /\ ~IsSorted(a) /\ ~UniqueIds(a)

(***************************************************************************)
(* C8: with an empty input set every routine returns normally, having      *)
(* appended no pair, drawn nothing from the RNG and read no position out   *)
(* of range.                                                               *)
(***************************************************************************)
C8_EmptyInputs ==
    (pc # "ready" /\ (empty(a) \/ empty(arg_b)))
    => pc = "done" /\ out = <<>> /\ drawn = 0 /\ ~panicked

\* intersect_ze_custom returned from an empty and a non-empty set
C8_Witness ==
    /\ Done("intersect_ze_custom") /\ empty(a) /\ ~empty(b) /\ call.CUTOFF = 1

(***************************************************************************)
(* C9: for any two boxes x and y, x.intersects(y) = y.intersects(x); if    *)
(* x.hi(k) <= y.lo(k) on some axis k (touching faces included), the boxes  *)
(* do not intersect and intersect_ze (intersect_ze_custom with any cutoff) *)
(* on a sorted set that holds both emits the pair in neither orientation.  *)
(***************************************************************************)
Apart(x, y) == \E dim \in Dims : hi(x, dim) <= lo(y, dim)

C9_HalfOpenBoxes ==
    \A j, k \in 1 .. len(a) :
        /\ intersects(a[j].box, a[k].box) = intersects(a[k].box, a[j].box)
        /\ Apart(a[j].box, a[k].box)
           => /\ ~intersects(a[j].box, a[k].box)
              /\ (same /\ call.op = "intersect_ze_custom")
                 => \A e \in 1 .. Len(out) :
                        out[e].Ident \notin {<<a[j].id, a[k].id>>, <<a[k].id, a[j].id>>}

\* intersect_ze reported two pairs of three boxes of which two touch
C9_Witness ==
    /\ same /\ Done("intersect_ze_custom") /\ call.CUTOFF = CUTOFF
    /\ Len(out) = 2
    /\ \E j, k \in 1 .. len(a) : \E dim \in Dims : hi(a[j].box, dim) = lo(a[k].box, dim)

(***************************************************************************)
(* C10: every entry ((pos_i, pos_j), (id_i, id_j)) that one_way_scan,      *)
(* simulated_one_way_scan or two_way_scan appends to a Both sink names the *)
(* same boxes in both components: the entry at pos_i of intervals has      *)
(* identifier id_i, the entry at pos_j of points has identifier id_j.      *)
(***************************************************************************)
BothConsistent(e, intervals, points) ==
    /\ InRange(intervals, e.Both[1][1]) /\ get(intervals, e.Both[1][1]).id = e.Both[2][1]
    /\ InRange(points, e.Both[1][2]) /\ get(points, e.Both[1][2]).id = e.Both[2][2]

C10_BothShapeConsistent ==
    (pc = "done" /\ call.op \in {"one_way_scan", "simulated_one_way_scan", "two_way_scan"})
    => \A j \in 1 .. Len(out) : BothConsistent(out[j], a, arg_b)

(***************************************************************************)
(* C11: for two distinct sorted sets a and b, every by-position pair       *)
(* (x, y) that intersect_scan_idx(a, b) emits has x a position of a and y  *)
(* a position of b whose boxes intersect, and the set of position pairs is *)
(* that of intersect_brute_force_idx(a, b); for one set passed twice,      *)
(* one_way_scan emits (position of the interval, position of the point).   *)
(***************************************************************************)
\* the by-position pairs of a sequence of emissions
IndexPairs(entries) == { entries[j].Index : j \in 1 .. Len(entries) }

C11_ByPositionOrientation ==
    /\ (Done("intersect_scan") /\ ~same /\ DisjointIds(a, b))
       => /\ \A j \in 1 .. Len(out) :
                 /\ InRange(a, out[j].Index[1])
                 /\ InRange(b, out[j].Index[2])
                 /\ intersects(get(a, out[j].Index[1]).box, get(b, out[j].Index[2]).box)
          /\ IndexPairs(out) = IndexPairs(intersect_brute_force(a, b, FALSE).out)
    /\ (Done("one_way_scan") /\ same)
       => \A j \in 1 .. Len(out) :
              /\ InRange(a, out[j].Index[1]) /\ get(a, out[j].Index[1]).id = out[j].Ident[1]
              /\ InRange(a, out[j].Index[2]) /\ get(a, out[j].Index[2]).id = out[j].Ident[2]

(***************************************************************************)
(* C12: a top-level call of intersect_ze_custom(a, b, out, rng) leaves     *)
(* both input sets as they are and only appends to the sink: what the sink *)
(* held before, from earlier calls too, stays as a prefix, unchanged and   *)
(* in the same order.                                                      *)
(***************************************************************************)
C12_FrameOfCall ==
    [][/\ a' = a /\ b' = b /\ same' = same
       /\ Len(out') >= Len(out)
       /\ SubSeq(out', 1, Len(out)) = out]_vars

\* a second call on one set returned after a split: the sink holds the pairs of the
\* first call and, after them, those of the second
C12_Witness ==
    /\ Done("intersect_ze_custom") /\ same /\ drawn > 0
    /\ len(a) = MaxBoxes /\ Len(out) = 2 /\ Cardinality(OverlapSame(a)) = 1

(***************************************************************************)
(* C13: for two sets intervals and points of non-empty boxes, both sorted  *)
(* by lo(0), the same set or not, and any k_max < d, one_way_scan emits    *)
(* (i.id, p.id) exactly once for each entry i of intervals and p of points *)
(* with i.id # p.id, i.lo(0) <= p.lo(0) < i.hi(0), p intersecting i on the *)
(* axes 1..k_max, and not (p.lo(0) = i.lo(0) and p.id > i.id); it emits no *)
(* other pair.                                                             *)
(***************************************************************************)
\* the positions (j in intervals, k in points) of the pairs the one-way scan is to emit
OneWayPositions(intervals, points, k_max) ==
    { pr \in (1 .. len(intervals)) \X (1 .. len(points)) :
        LET i == intervals[pr[1]]
            p == points[pr[2]]
        IN  /\ i.id # p.id
            /\ lo(i.box, 0) <= lo(p.box, 0) /\ lo(p.box, 0) < hi(i.box, 0)
            /\ \A k \in 1 .. k_max : intersects_in(p.box, k, lo(i.box, k), hi(i.box, k))
            /\ ~(lo(p.box, 0) = lo(i.box, 0) /\ p.id > i.id) }

C13_OneWayScanExact ==
    Done("one_way_scan")
    => /\ { out[j].Ident : j \in 1 .. Len(out) }
          = { <<a[pr[1]].id, arg_b[pr[2]].id>> : pr \in OneWayPositions(a, arg_b, call.max_dim_check) }
       /\ Len(out) = Cardinality(OneWayPositions(a, arg_b, call.max_dim_check))

\* a scan of two distinct sets that emitted a pair and returned early: the last
\* interval starts after every point
C13_Witness ==
    /\ Done("one_way_scan") /\ ~same /\ out # <<>>
    /\ len(a) = 2 /\ \A k \in 1 .. len(b) : lo(b[k].box, 0) < lo(a[2].box, 0)

(***************************************************************************)
(* C14 as stated: in simulated_one_way_scan(intervals, points, k_max), a   *)
(* pair of an interval i and a point p with i.lo(k_max) = p.lo(k_max) is   *)
(* emitted only when the point's identifier is the lesser (p.id < i.id),   *)
(* the rule of one_way_scan on axis 0.                                     *)
(***************************************************************************)
\* the entry of s that an emitted identifier pair names (s shares no identifier with
\* the other set)
Named(s, ident) == CHOOSE e \in iter(s) : e.id \in {ident[1], ident[2]}

\* the emission is of an interval and a point with the same lo on the highest axis checked
TieAt(e, intervals, points, k_max) ==
    lo(Named(intervals, e.Ident).box, k_max) = lo(Named(points, e.Ident).box, k_max)

C14_TiePointLesser ==
    (Done("simulated_one_way_scan") /\ ~same /\ DisjointIds(a, b))
    => \A j \in 1 .. Len(out) :
           TieAt(out[j], a, b, call.max_dim_check)
           => Named(b, out[j].Ident).id < Named(a, out[j].Ident).id

(***************************************************************************)
(* C14 amended: in simulated_one_way_scan(intervals, points, k_max), a     *)
(* pair of an interval i and a point p with i.lo(k_max) = p.lo(k_max) is   *)
(* emitted only when the interval's identifier is the lesser (i.id < p.id):*)
(* the mirror image of the rule of one_way_scan.                           *)
(***************************************************************************)
C14_TieIntervalLesser ==
    (Done("simulated_one_way_scan") /\ ~same /\ DisjointIds(a, b))
    => \A j \in 1 .. Len(out) :
           TieAt(out[j], a, b, call.max_dim_check)
           => Named(a, out[j].Ident).id < Named(b, out[j].Ident).id

\* the simulated scan on the highest axis emitted a pair whose boxes start at the same
\* point of that axis, and skipped another such pair
C14_Witness ==
    /\ Done("simulated_one_way_scan") /\ ~same /\ DisjointIds(a, b) /\ FullScan
    /\ Len(out) = 1 /\ TieAt(out[1], a, b, DIM - 1)
    /\ len(a) = 1 /\ len(b) = 2 /\ b[1].box = b[2].box /\ b[1].id < a[1].id

(***************************************************************************)
(* C15: for every non-empty set S, axis k and RNG sequence, the value that *)
(* S.approx_median(k, rng) returns is lo(k) of the entry at one of the     *)
(* positions drawn from the RNG during the call, and it is the recursive   *)
(* median of three of the drawn values; median_of_3(x, y, z) is >= one and *)
(* <= another of its arguments.                                            *)
(***************************************************************************)
\* lo(k) of the entries at the positions drawn, in the order in which the recursion
\* takes them: the last one drawn first
DrawnValues ==
    [j \in 1 .. Len(rand) |-> lo(get(a, rand[Len(rand) + 1 - j].value).box, call.max_dim_check)]

\* v lies between two of the three arguments, taken at different places
Between(v, x, y, z) ==
    \E f \in {<<x, y>>, <<y, x>>, <<x, z>>, <<z, x>>, <<y, z>>, <<z, y>>} : f[1] <= v /\ v <= f[2]

\* the recursive median of three of the values vs, levels deep, from position from on
RECURSIVE MedianTree(_, _, _)
MedianTree(vs, levels, from) ==
    IF levels = 0 THEN vs[from]
    ELSE median_of_3(MedianTree(vs, levels - 1, from),
                     MedianTree(vs, levels - 1, from + pow3(levels - 1)),
                     MedianTree(vs, levels - 1, from + 2 * pow3(levels - 1)))

C15_MedianNotSynthesized ==
    (Done("approx_median") /\ median.returned)
    => /\ \E j \in 1 .. Len(rand) : median.value = DrawnValues[j]
       /\ median.value = MedianTree(DrawnValues, median_levels(len(a)), 1)
       /\ \A j \in 0 .. (Len(rand) \div 3) - 1 :
              LET x == DrawnValues[3 * j + 1]
                  y == DrawnValues[3 * j + 2]
                  z == DrawnValues[3 * j + 3]
              IN  /\ median_of_3(x, y, z) \in {x, y, z}
                  /\ Between(median_of_3(x, y, z), x, y, z)

\* a call on the highest axis of a set of three boxes with three different lo drew each
\* position once and returned the middle value
C15_Witness ==
    /\ Done("approx_median") /\ median.returned /\ call.max_dim_check = DIM - 1
    /\ len(a) = 3 /\ {rand[j].value : j \in 1 .. Len(rand)} = {0, 1, 2}
    /\ median.value = 1

(***************************************************************************)
(* C16: for a set of length n >= 1, one call of approx_median(k, rng)      *)
(* calls rng.rand_usize exactly 3^L times, each with bound n, and consumes *)
(* all of the drawn indices, where L = max(1, floor(0.91 * ln(n/137 + 1))).*)
(***************************************************************************)
\* max(1, floor(0.91 * ln(n/137 + 1))): the least n with 0.91 * ln(n/137 + 1) >= j is
\* ceil(137 * (e^(j/0.91) - 1)), which is 275, 1097, 3566, 10973 for j = 1 .. 4
StatedLevels(n) ==
    IF n >= 10973 THEN 4 ELSE IF n >= 3566 THEN 3 ELSE IF n >= 1097 THEN 2 ELSE 1

C16_DrawCount ==
    (Done("approx_median") /\ median.returned)
    => /\ Len(rand) = pow3(StatedLevels(len(a)))
       /\ \A j \in 1 .. Len(rand) : rand[j].high = len(a)
       /\ median.random_indices = <<>>

(***************************************************************************)
(* C17: partition(pred) returns two sets that together hold every entry of *)
(* the parent exactly once, each in the parent's relative order; so, when  *)
(* the inputs of intersect_ze_custom are sorted by lo(0), every set that   *)
(* hybrid passes to a recursive call or to a scan (intervals_m,            *)
(* intervals_lr, intervals_l, intervals_r, points_l, points_r) is          *)
(* non-decreasing in lo(0).                                                *)
(***************************************************************************)
\* part is parent at the places at[1] < at[2] < ...
TakenAt(parent, part, at) ==
    /\ \A j \in 1 .. Len(part) : parent[at[j]] = part[j]
    /\ \A j \in 1 .. Len(part) - 1 : at[j] < at[j + 1]

\* yes and no split parent: every place of parent is taken by exactly one of them, and
\* each keeps the order of parent
Splits(parent, yes, no) ==
    /\ Len(yes) + Len(no) = Len(parent)
    /\ \E at \in [1 .. Len(yes) -> 1 .. Len(parent)] :
       \E other \in [1 .. Len(no) -> 1 .. Len(parent)] :
           /\ TakenAt(parent, yes, at)
           /\ TakenAt(parent, no, other)
           /\ {at[j] : j \in 1 .. Len(yes)} \cup {other[j] : j \in 1 .. Len(no)} = 1 .. Len(parent)

SortedFrame(f) == IsSorted(f.intervals) /\ IsSorted(f.points) /\ IsSorted(f.intervals_lr)

C17_SortednessPreserved ==
    (call.op = "intersect_ze_custom" /\ IsSorted(a) /\ IsSorted(b))
    => /\ \A j \in 1 .. Len(stack) : SortedFrame(stack[j])
       /\ \A j \in 1 .. Len(entered) : SortedFrame(entered[j])
       /\ pc = "running"
          => LET f == Head(stack)
                 intervals_m == partition(f.intervals, {e \in iter(f.intervals) : spans(e, f.lo, f.hi, f.dim)})[1]
             IN  /\ Splits(f.intervals, intervals_m, f.intervals_lr)
                 /\ \A e \in iter(f.intervals_lr) : ~spans(e, f.lo, f.hi, f.dim)
                 /\ \A mi \in medians(f.points, f.dim) :
                        ~median_failed(mi, f.lo, f.hi)
                        => /\ Splits(f.points, split_calls(f, mi)[1].points, split_calls(f, mi)[2].points)
                           /\ \A e \in iter(split_calls(f, mi)[1].points) : point_left(e, mi, f.dim)
                           /\ \A e \in iter(split_calls(f, mi)[2].points) : ~point_left(e, mi, f.dim)

\* a frame passed its spanning interval (intervals_m) down to the next axis and kept
\* another interval for its subsegments
C17_Witness ==
    /\ call.op = "intersect_ze_custom" /\ pc = "running" /\ IsSorted(a) /\ same
    /\ Len(Head(stack).intervals_lr) = 1
    /\ Len(Head(stack).intervals) = 2
    /\ \E j \in 1 .. Len(entered) :
           entered[j].dim = 0 /\ Len(entered[j].intervals) = 1 /\ Len(entered[j].points) >= 1

(***************************************************************************)
(* C18: for sorted sets with unique identifiers whose boxes have           *)
(* lo(k) <= hi(k) on every axis (a box may have no width), every pair that *)
(* one_way_scan(A, A, d-1), simulated_one_way_scan(A, A, d-1) and          *)
(* two_way_scan on two such sets emit is a pair of boxes for which         *)
(* intersects is true: the scans report no pair that intersect_brute_force *)
(* would not report.                                                       *)
(***************************************************************************)
\* the entry of s with identifier id
ById(s, id) == CHOOSE e \in iter(s) : e.id = id

C18_ScansSoundOnFlatBoxes ==
    /\ (same /\ FullScan /\ (Done("one_way_scan") \/ Done("simulated_one_way_scan")))
       => /\ \A j \in 1 .. Len(out) :
                 intersects(ById(a, out[j].Ident[1]).box, ById(a, out[j].Ident[2]).box)
          /\ IdentPairs(out) \subseteq IdentPairs(intersect_brute_force(a, a, TRUE).out)
    /\ (~same /\ Done("two_way_scan"))
       => /\ \A j \in 1 .. Len(out) :
                 intersects(Named(a, out[j].Ident).box, Named(b, out[j].Ident).box)
          /\ IdentPairs(out) \subseteq IdentPairs(intersect_brute_force(a, b, FALSE).out)

(***************************************************************************)
(* C19: in every frame of hybrid reached from a top-level call of          *)
(* intersect_ze_custom, with segment [lo, hi) and axis k, every entry p of *)
(* the frame's points has lo <= p.lo(k) < hi; hence approx_median, called  *)
(* only on a non-empty points set, never returns hi, and every interval of *)
(* intervals_m (lo(k) < lo and hi(k) > hi) has p.lo(k) strictly inside its *)
(* projection on axis k, for every point p of the frame.                   *)
(***************************************************************************)
PointsInSegment(f) ==
    \A p \in iter(f.points) : f.lo <= lo(p.box, f.dim) /\ lo(p.box, f.dim) < f.hi

C19_SegmentInvariant ==
    call.op = "intersect_ze_custom"
    => /\ \A j \in 1 .. Len(stack) : PointsInSegment(stack[j])
       /\ \A j \in 1 .. Len(entered) : PointsInSegment(entered[j])
       /\ pc = "running"
          => LET f == Head(stack)
             IN  /\ ~empty(f.points)
                 /\ \A mi \in medians(f.points, f.dim) : mi # f.hi
                 /\ \A i \in iter(f.intervals) : \A p \in iter(f.points) :
                        spans(i, f.lo, f.hi, f.dim)
                        => /\ lo(i.box, f.dim) < lo(p.box, f.dim)
                           /\ lo(p.box, f.dim) < hi(i.box, f.dim)

\* the frame of the segment [1, 2), with a point and an interval that spans the segment,
\* is about to draw its median
C19_Witness ==
    /\ call.op = "intersect_ze_custom" /\ pc = "running"
    /\ Head(stack).lo = 1 /\ Head(stack).hi = 2
    /\ ~empty(Head(stack).points)
    /\ \E i \in iter(Head(stack).intervals) : spans(i, 1, 2, Head(stack).dim)

====
